---------------------------- MODULE Spec2Model ----------------------------
(***************************************************************************)
(* State-machine model of the asynchronous novel crawler                   *)
(* (src/wxzwgx.py, class FastNovelCrawler).                                *)
(*                                                                         *)
(* Units: durations are in milliseconds (a sleep of 5 s is 5000), the load *)
(* factor and the random factor are in tenths (1.5 is 15).  None is the    *)
(* string "None".                                                          *)
(***************************************************************************)
EXTENDS Integers, Sequences, FiniteSets, TLC

None == "None"

(***************************************************************************)
(* Program constants                                                       *)
(***************************************************************************)
retry_count == 5          \* self.retry_count
FailureLimit == 5         \* while ... consecutive_failures < 5
WindowCap == 50           \* len(self.response_times) > 50
SlowdownAfter == 2        \* if consecutive_failures > 2
SlowdownWait == 10000     \* asyncio.sleep(10)
ErrorWait == 5000         \* asyncio.sleep(5 * consecutive_failures)
ForbiddenWait == 5000     \* asyncio.sleep(5) after a 403
PageGap == 500            \* asyncio.sleep(0.5) between sub-pages
MinLen == 5               \* len(text) > 5
base_delay == 1500        \* base_delay: float = 1.5
InitialLoadFactor == 10   \* self.server_load_factor = 1.0
RecentCount == 10         \* self.response_times[-10:]

(***************************************************************************)
(* Bounds of the model                                                     *)
(***************************************************************************)
MaxFaults == 2            \* non-200 responses the servers of a traversal give
MaxSaveFailures == 1      \* failed file writes in a traversal
MaxErrors == 1            \* exceptions raised in the loop body outside the fetches
MaxCalls == 2             \* fetch calls the fetch harness makes
MaxSamples == 3           \* samples of a short latency window given to the delay
MaxUrls == 4              \* hrefs collected from one page by the selectors
MaxLinks == 2             \* anchors the selectors match in one page

(***************************************************************************)
(* The world: the pages the servers hold.  A page is what BeautifulSoup    *)
(* finds in its body: the title, whether div.blurstxt with <p> children    *)
(* exists, the cleaned paragraphs (text and cleaned length), the href of   *)
(* a[rel=next], and the links the pagination selectors match (href and     *)
(* visible label) in document order.                                       *)
(***************************************************************************)
Para(t, n) == [text |-> t, n |-> n]
Link(h, l) == [href |-> h, label |-> l]
PageRec(t, c, ps, nx, ls) ==
    [title |-> t, container |-> c, paras |-> ps, next |-> nx, links |-> ls]

Short == <<Para("ad", 3)>>

Page(u) ==
    CASE u = "A"  -> PageRec("tA", TRUE, <<Para("T1", 8), Para("P1", 9)>>, "B", <<>>)
      [] u = "B"  -> PageRec("tB", TRUE, <<Para("P2", 7)>>, None,
                             <<Link("B2", "2"), Link("B1", "1")>>)
      [] u = "B1" -> PageRec(None, TRUE, <<Para("P2b", 6)>>, None, <<>>)
      [] u = "B2" -> PageRec(None, TRUE, <<Para("P3", 10)>>, None, <<>>)
      \* a chain with runs of documents whose paragraphs are all too short
      [] u = "E1" -> PageRec("tE1", TRUE, Short, "E2", <<>>)
      [] u = "E2" -> PageRec("tE2", TRUE, Short, "G3", <<>>)
      [] u = "G3" -> PageRec("tG3", TRUE, <<Para("g3", 12)>>, "E4", <<>>)
      [] u = "E4" -> PageRec(None, TRUE, Short, "E5", <<>>)
      [] u = "E5" -> PageRec("tE5", TRUE, Short, "E6", <<>>)
      [] u = "E6" -> PageRec("tE6", TRUE, Short, "E7", <<>>)
      [] u = "E7" -> PageRec("tE7", TRUE, Short, "E8", <<>>)
      [] u = "E8" -> PageRec("tE8", TRUE, Short, "X9", <<>>)
      [] u = "X9" -> PageRec("tX9", TRUE, <<Para("x9", 9)>>, None, <<>>)
      \* a document with three sub-pages, then a navigation-only page
      [] u = "M1" -> PageRec(None, TRUE, <<Para("m1", 6)>>, "M2",
                             <<Link("M1c", "3"), Link("M1", "1"), Link("M1a", "2"),
                               Link("M1c", "3"), Link("M1b", "next"), Link("M1b", "4")>>)
      [] u = "M1a" -> PageRec(None, TRUE, <<Para("ma", 6), Para("x", 1)>>, None, <<>>)
      [] u = "M1b" -> PageRec(None, TRUE, <<Para("mb", 7)>>, None, <<>>)
      [] u = "M1c" -> PageRec(None, TRUE, <<Para("mc", 8), Para("mc2", 9)>>, "M9", <<>>)
      [] u = "M2" -> PageRec("tM2", FALSE, <<>>, "M3", <<>>)
      [] u = "M3" -> PageRec("tM3", TRUE, <<Para("m3", 6)>>, None, <<>>)
      \* a chain of three documents, the second with sub-pages
      [] u = "D1" -> PageRec("tD1", TRUE, <<Para("d1", 6)>>, "D2", <<>>)
      [] u = "D2" -> PageRec("tD2", TRUE, <<Para("d2", 7), Para("ad", 4)>>, "D3",
                             <<Link("D2a", "2"), Link("D2b", "3")>>)
      [] u = "D2a" -> PageRec(None, TRUE, <<Para("d2a", 6)>>, None, <<>>)
      [] u = "D2b" -> PageRec(None, TRUE, <<Para("d2b", 6)>>, None, <<>>)
      [] u = "D3" -> PageRec("tD3", TRUE, <<Para("d3", 8)>>, None, <<>>)
      \* a chain of six documents whose only paragraph is empty after cleaning
      [] u \in {"Z1", "Z2", "Z3", "Z4", "Z5", "Z6"} ->
            PageRec(None, TRUE, <<Para("", 0)>>,
                    CASE u = "Z1" -> "Z2" [] u = "Z2" -> "Z3" [] u = "Z3" -> "Z4"
                      [] u = "Z4" -> "Z5" [] u = "Z5" -> "Z6" [] OTHER -> "Z7", <<>>)
      [] u = "Z7" -> PageRec("tZ7", TRUE, <<Para("z7", 7)>>, None, <<>>)
      \* a content container without paragraphs, with a rel=next link
      [] u = "Q1" -> PageRec("tQ1", TRUE, <<>>, "Q2", <<>>)
      [] u = "Q2" -> PageRec("tQ2", TRUE, <<Para("q2", 6)>>, None, <<>>)
      [] OTHER    -> PageRec(None, FALSE, <<>>, None, <<>>)

StartUrls == {"A", "E1", "M1", "D1"}
HarnessUrls == {"H1", "H403", "javascript:"}
\* the url argument of WebCrawler.crawl_all_pages
SyncUrls == {"A", "M1", "D1", "Z1", "Q1", "javascript:", None}

(***************************************************************************)
(* The parts of a URL that _extract_page_number reads; -1 is "absent".     *)
(***************************************************************************)
NoNum == 0 - 1
Parts(pp, hn, ph, qpage, qp, qpaged, fr) ==
    [pathPage |-> pp, htmlNum |-> hn, pHtml |-> ph,
     qPage |-> qpage, qP |-> qp, qPaged |-> qpaged, frag |-> fr]
NoParts == Parts(NoNum, NoNum, NoNum, NoNum, NoNum, NoNum, NoNum)

UrlParts(u) ==
    CASE u = "B1"  -> [NoParts EXCEPT !.pathPage = 1]
      [] u = "B2"  -> [NoParts EXCEPT !.pathPage = 2]
      [] u = "M1a" -> [NoParts EXCEPT !.qPage = 2]
      [] u = "M1b" -> [NoParts EXCEPT !.qPaged = 4]
      [] u = "M1c" -> [NoParts EXCEPT !.pHtml = 3]
      [] u = "D2a" -> [NoParts EXCEPT !.qP = 2]
      [] u = "D2b" -> [NoParts EXCEPT !.frag = 3]
      [] OTHER     -> NoParts

(***************************************************************************)
(* Pure helpers of the crawler                                             *)
(***************************************************************************)
RECURSIVE SumSeq(_)
SumSeq(s) == IF s = <<>> THEN 0 ELSE s[1] + SumSeq(Tail(s))

RECURSIVE Flatten(_)
Flatten(ss) == IF ss = <<>> THEN <<>> ELSE ss[1] \o Flatten(Tail(ss))

LastN(s, n) == IF Len(s) <= n THEN s ELSE SubSeq(s, Len(s) - n + 1, Len(s))

\* list.sort(key=lambda x: x[0]): a stable ascending sort on the first component
InsertByFirst(sorted, x) ==
    LET k == Cardinality({j \in 1..Len(sorted) : sorted[j][1] <= x[1]})
    IN  SubSeq(sorted, 1, k) \o <<x>> \o SubSeq(sorted, k + 1, Len(sorted))

RECURSIVE SortByFirst(_)
SortByFirst(s) ==
    IF s = <<>> THEN <<>>
    ELSE InsertByFirst(SortByFirst(SubSeq(s, 1, Len(s) - 1)), s[Len(s)])

\* _extract_page_number: the first rule that matches decides
extract_page_number_default_last(p) ==
    IF p.pathPage # NoNum THEN p.pathPage
    ELSE IF p.htmlNum # NoNum THEN p.htmlNum
    ELSE IF p.pHtml # NoNum THEN p.pHtml
    ELSE IF p.qPage # NoNum THEN p.qPage
    ELSE IF p.qP # NoNum THEN p.qP
    ELSE IF p.qPaged # NoNum THEN p.qPaged
    ELSE IF p.frag # NoNum THEN p.frag
    ELSE 99
extract_page_number(p) ==
    IF p.pathPage # NoNum THEN p.pathPage          \* r'/page/(\d+)/?'
    ELSE IF p.htmlNum # NoNum THEN p.htmlNum       \* r'/(\d+)\.html?'
    ELSE IF p.pHtml # NoNum THEN p.pHtml           \* r'/p(\d+)\.html?'
    ELSE IF p.qPage # NoNum THEN p.qPage           \* r'page=(\d+)'
    ELSE IF p.qP # NoNum THEN p.qP                 \* r'p=(\d+)'
    ELSE IF p.qPaged # NoNum THEN p.qPaged         \* parse_qs: 'page', 'p', 'paged'
    ELSE IF p.frag # NoNum THEN p.frag             \* digits of the fragment
    ELSE 0

\* A URL as the text of its path, its query and its fragment: each part holds
\* at most one piece of text that carries a number.
Piece(k, n) == [kind |-> k, n |-> n]
NoPiece == Piece("none", NoNum)
Url(p, q, f) == [path |-> p, query |-> q, fragment |-> f]

\* the kinds of piece that hold a match of each pattern of path_patterns
PatternKinds(pattern) ==
    CASE pattern = "/page/(\\d+)/?" -> {"/page/N/"}
      [] pattern = "/(\\d+)\\.html?" -> {"/N.html"}
      [] pattern = "/p(\\d+)\\.html?" -> {"/pN.html"}
      [] pattern = "page=(\\d+)" -> {"page=N"}
      [] pattern = "p=(\\d+)" -> {"p=N"}

\* re.search(pattern, url): the leftmost match in the whole text of the URL, in
\* which the path stands before the query and the query before the fragment
search(pattern, url) ==
    IF url.path.kind \in PatternKinds(pattern) THEN url.path.n
    ELSE IF url.query.kind \in PatternKinds(pattern) THEN url.query.n
    ELSE IF url.fragment.kind \in PatternKinds(pattern) THEN url.fragment.n
    ELSE NoNum

\* what the rules of _extract_page_number find in a URL: the five patterns on
\* the whole URL, parse_qs on the query (a 'page' or 'p' parameter with a
\* number is found by the patterns before), the first digits of the fragment
rule_matches(url) ==
    Parts(search("/page/(\\d+)/?", url), search("/(\\d+)\\.html?", url),
          search("/p(\\d+)\\.html?", url), search("page=(\\d+)", url),
          search("p=(\\d+)", url),
          IF url.query.kind = "paged=N" THEN url.query.n ELSE NoNum,
          url.fragment.n)

\* _sort_pagination_urls
sort_pagination_urls_unsorted(urls) == urls
sort_pagination_urls_ties_reversed(urls) ==
    LET n == Len(urls)
        url_with_pages ==
            [j \in 1..n |-> <<extract_page_number(UrlParts(urls[n + 1 - j])),
                              urls[n + 1 - j]>>]
        sorted == SortByFirst(url_with_pages)
    IN  [j \in 1..Len(sorted) |-> sorted[j][2]]
sort_pagination_urls(urls) ==
    LET url_with_pages ==
            [j \in 1..Len(urls) |-> <<extract_page_number(UrlParts(urls[j])), urls[j]>>]
        sorted == SortByFirst(url_with_pages)
    IN  [j \in 1..Len(sorted) |-> sorted[j][2]]

\* _deduplicate_preserve_order
RECURSIVE deduplicate_preserve_order(_)
deduplicate_preserve_order(urls) ==
    IF urls = <<>> THEN <<>>
    ELSE LET front == deduplicate_preserve_order(SubSeq(urls, 1, Len(urls) - 1))
             u == urls[Len(urls)]
         IN  IF \E j \in 1..Len(front) : front[j] = u THEN front ELSE Append(front, u)

\* _validate_url: scheme and netloc both present (after urljoin with base_url)
InvalidHrefs == {"javascript:"}
validate_url(u) == u \notin InvalidHrefs

\* the labels that contain one of 'prev', 'next', '上一', '下一', '首页', '末页'
NavLabels == {"prev", "next", "shangyi", "xiayi", "shouye", "moye"}

\* lines 436-442: the collected hrefs are deduplicated, then sorted if any is left
dedup_and_sort(hrefs) ==
    LET deduplicated == deduplicate_preserve_order(hrefs)
    IN  IF deduplicated # <<>> THEN sort_pagination_urls(deduplicated)
        ELSE deduplicated

\* get_pagination_links, from the parsed body on
pagination_links_of(body, url) ==
    LET Keep(l) == /\ l.label \notin NavLabels
                   /\ validate_url(l.href)
                   /\ l.href # url
        kept == SelectSeq(body.links, Keep)
    IN  dedup_and_sort([j \in 1..Len(kept) |-> kept[j].href])

\* extract_page_content, from the fetched body on: (content_list, next, title)
Result(c, nx, t) == [content |-> c, next |-> nx, title |-> t]
\* lines 266-268: fetch_with_retry of url returned None
no_html_keeps_next(url) == Result(<<>>, Page(url).next, None)
no_html(url) == Result(<<>>, None, None)
extract_content_keep_short(body) ==
    IF ~body.container THEN Result(<<>>, None, body.title)
    ELSE Result(body.paras, body.next, body.title)
extract_content(body) ==
    LET Long(p) == p.n > MinLen
    IN  IF ~body.container THEN Result(<<>>, None, body.title)
        ELSE Result(SelectSeq(body.paras, Long), body.next, body.title)

\* lines 522-525: page_contents.sort(key=index); all_content.extend(each)
merge_pages_main_only(all, page_contents) == all
merge_pages_descending(all, page_contents) ==
    LET n == Len(page_contents)
        sorted == SortByFirst(page_contents)
    IN  all \o Flatten([j \in 1..n |-> sorted[n + 1 - j][2]])
merge_pages(all, page_contents) ==
    LET sorted == SortByFirst(page_contents)
    IN  all \o Flatten([j \in 1..Len(sorted) |-> sorted[j][2]])

\* sum(len(p) for p in all_content)
words_of_paragraphs(content) == Len(content)
words_of(content) == SumSeq([j \in 1..Len(content) |-> content[j].n])

\* format_chapter_content: the record appended to the output file
Block(k, t, num, segs, w, f) ==
    [kind |-> k, title |-> t, num |-> num, segs |-> segs, words |-> w, failed |-> f]
format_chapter_content(title, all, chapter_num) ==
    Block("chapter", title, IF title = None THEN chapter_num ELSE 0,
          [j \in 1..Len(all) |-> all[j].text], 0, 0)

\* _calculate_adaptive_delay: the load factor for a non-empty window
load_factor_of_whole_window(times) ==
    LET total == SumSeq(times)
        n == Len(times)
    IN  IF total > 5000 * n THEN 30
        ELSE IF total > 3000 * n THEN 25
        ELSE IF total > 1500 * n THEN 20
        ELSE 15
load_factor_of_no_floor(times) ==
    LET recent == LastN(times, RecentCount)
        total == SumSeq(recent)
        n == Len(recent)
    IN  IF total > 5000 * n THEN 30
        ELSE IF total > 3000 * n THEN 25
        ELSE IF total > 1500 * n THEN 20
        ELSE 10
load_factor_of(times) ==
    LET recent == LastN(times, RecentCount)
        total == SumSeq(recent)
        n == Len(recent)
    IN  IF total > 5000 * n THEN 30
        ELSE IF total > 3000 * n THEN 25
        ELSE IF total > 1500 * n THEN 20
        ELSE 15

\* random.uniform(1.0, 2.0), in tenths
RandomFactors == {10, 15, 20}

(***************************************************************************)
(* State                                                                   *)
(***************************************************************************)
VARIABLES
    site,                 \* start_url of the traversal
    pc,                   \* where crawl_novel_from_chapter_async stands
    returned,             \* its return value, None while it runs
    current_url, chapter_num, consecutive_failures,
    next_chapter_url,     \* local of the loop; "unbound" before its first assignment
    chapter_count, total_words,
    file,                 \* the output file: the blocks written so far
    chapter,              \* locals of crawl_complete_chapter_async
    pending,              \* the formatted chapter handed to the file writer
    task,                 \* the fetch_with_retry calls, by caller
    response_times, failed_urls, server_load_factor,
    history,              \* elapsed times of all successful round-trips so far
    delays,               \* calls of _calculate_adaptive_delay in the current chapter call
    page_links,           \* get_pagination_links: the anchors the selectors matched
    collected,            \* get_pagination_links: the hrefs the selectors gave, in order
    url_with_pages,       \* _sort_pagination_urls: the (page number, url) pairs
    pagination_urls,      \* get_pagination_links: the list it goes on with
    wait,                 \* duration of the walker's current sleep
    faults_left,          \* non-200 responses the servers may still give
    save_failures_left,   \* file writes that may still fail
    errors_left,          \* statements of the loop body that may still raise
    calls,                \* fetch calls the harness has made
    interrupted           \* the user has pressed Ctrl-C

vars == <<site, pc, returned, current_url, chapter_num, consecutive_failures,
          next_chapter_url, chapter_count, total_words, file, chapter, pending,
          task, response_times, failed_urls, server_load_factor, history, delays,
          page_links, collected, url_with_pages, pagination_urls,
          wait, faults_left, save_failures_left, errors_left, calls,
          interrupted>>

walker == <<site, pc, returned, current_url, chapter_num, consecutive_failures,
            next_chapter_url, chapter_count, total_words, file, chapter, pending,
            server_load_factor, delays, page_links, collected, url_with_pages,
            pagination_urls,
            wait, save_failures_left, errors_left, interrupted>>

Tasks == {"main", "pag", "sub"}
Unlimited == 0 - 1        \* faults_left when the servers' faults are not bounded
Outcomes == {"200", "403", "404", "other", "conn", "ssl", "timeout", "unknown"}

\* the latency of a successful round-trip to u, in milliseconds
Latencies(u) ==
    IF u = "H1" THEN {1000, 4000} ELSE IF u \in {"B", "M1c"} THEN {6000} ELSE {1200}

\* what session.get may give for u: H403 refuses every request, and a URL without
\* scheme and host gets no response: session.get raises, before or while connecting
Rejections == {"conn", "unknown"}
Answers(u) ==
    IF u = "H403" THEN {"403"} ELSE IF ~validate_url(u) THEN Rejections ELSE Outcomes

IdleTask == [phase |-> "idle", url |-> None, attempt |-> 0, nreq |-> 0,
             last |-> "none", wait |-> 0, result |-> "none", response_time |-> 0]
NoChapter == [main |-> Result(<<>>, None, None), links |-> <<>>, i |-> 0,
              page_contents |-> <<>>, all_content |-> <<>>]
NoBlock == Block("none", None, 0, <<>>, 0, 0)

(***************************************************************************)
(* fetch_with_retry                                                        *)
(***************************************************************************)
\* entering the call: the loop starts with attempt = 0 and session.get is issued
begin_fetch(u) == [phase |-> "inflight", url |-> u, attempt |-> 0, nreq |-> 1,
                   last |-> "none", wait |-> 0, result |-> "none", response_time |-> 0]

\* the sleep in the handler of an exception, for the 0-based attempt
backoff(o, attempt) ==
    CASE o = "conn"    -> 5000 * (attempt + 1)
      [] o = "ssl"     -> 3000 * (attempt + 1)
      [] o = "timeout" -> 2000 * (attempt + 1)
      [] o = "unknown" -> 1000 * (2 ^ attempt)

\* after the loop: self.failed_urls.add(url); return None
give_up(tk) == [tk EXCEPT !.phase = "done", !.result = "None"]

\* the for loop moves on: another session.get, or the loop is exhausted
next_attempt_one_more(tk) ==
    IF tk.attempt + 1 <= retry_count
    THEN [tk EXCEPT !.phase = "inflight", !.attempt = @ + 1, !.nreq = @ + 1, !.wait = 0]
    ELSE give_up([tk EXCEPT !.wait = 0])
next_attempt(tk) ==
    IF tk.attempt + 1 < retry_count
    THEN [tk EXCEPT !.phase = "inflight", !.attempt = @ + 1, !.nreq = @ + 1, !.wait = 0]
    ELSE give_up([tk EXCEPT !.wait = 0])

\* what one attempt's outcome does to the call
on_outcome_403_backoff(tk, o) ==
    IF o = "200" THEN [tk EXCEPT !.phase = "done", !.result = "content", !.last = o]
    ELSE IF o = "403"
         THEN [tk EXCEPT !.phase = "sleep", !.wait = ForbiddenWait * (tk.attempt + 1),
                         !.last = o]
    ELSE IF o = "404" THEN give_up([tk EXCEPT !.last = o])
    ELSE IF o = "other" THEN next_attempt([tk EXCEPT !.last = o])
    ELSE IF tk.attempt < retry_count - 1
         THEN [tk EXCEPT !.phase = "sleep", !.wait = backoff(o, tk.attempt), !.last = o]
         ELSE next_attempt([tk EXCEPT !.last = o])
on_outcome_retry_404(tk, o) ==
    IF o = "200" THEN [tk EXCEPT !.phase = "done", !.result = "content", !.last = o]
    ELSE IF o = "403" THEN [tk EXCEPT !.phase = "sleep", !.wait = ForbiddenWait, !.last = o]
    ELSE IF o \in {"404", "other"} THEN next_attempt([tk EXCEPT !.last = o])
    ELSE IF tk.attempt < retry_count - 1
         THEN [tk EXCEPT !.phase = "sleep", !.wait = backoff(o, tk.attempt), !.last = o]
         ELSE next_attempt([tk EXCEPT !.last = o])
on_outcome(tk, o) ==
    IF o = "200" THEN [tk EXCEPT !.phase = "done", !.result = "content", !.last = o]
    ELSE IF o = "403" THEN [tk EXCEPT !.phase = "sleep", !.wait = ForbiddenWait, !.last = o]
    ELSE IF o = "404" THEN give_up([tk EXCEPT !.last = o])
    ELSE IF o = "other" THEN next_attempt([tk EXCEPT !.last = o])
    ELSE IF tk.attempt < retry_count - 1
         THEN [tk EXCEPT !.phase = "sleep", !.wait = backoff(o, tk.attempt), !.last = o]
         ELSE next_attempt([tk EXCEPT !.last = o])

\* self.response_times.append(...); keep the last 50
record_time_keep_first(times, lat) ==
    IF Len(times) < WindowCap THEN Append(times, lat) ELSE times
record_time_stale(times, lat) == LastN(Append(<<>>, lat), WindowCap)
record_time(times, lat) == LastN(Append(times, lat), WindowCap)

\* the shared state after a step that took the call from tk to new
failed_after_never(tk, new) == failed_urls
failed_after_forgets(tk, new) ==
    IF new.phase = "done" /\ new.result = "None" THEN failed_urls \cup {tk.url}
    ELSE IF new.phase = "done" THEN failed_urls \ {tk.url}
    ELSE failed_urls
failed_after(tk, new) ==
    IF new.phase = "done" /\ new.result = "None" THEN failed_urls \cup {tk.url}
    ELSE failed_urls

\* a response (or an exception) ends the current session.get of call t
fetch_response(t) ==
    /\ task[t].phase = "inflight"
    /\ \E o \in Answers(task[t].url) :
         /\ o # "200" => faults_left # 0
         /\ faults_left' = IF o = "200" \/ faults_left = Unlimited THEN faults_left
                           ELSE faults_left - 1
         /\ LET new == on_outcome(task[t], o)
            IN  IF o = "200"
                THEN \E lat \in Latencies(task[t].url) :
                        /\ task' = [task EXCEPT ![t] = [new EXCEPT !.response_time = lat]]
                        /\ response_times' = record_time(response_times, lat)
                        /\ history' = Append(history, lat)
                        /\ failed_urls' = failed_after(task[t], new)
                ELSE /\ task' = [task EXCEPT ![t] = new]
                     /\ failed_urls' = failed_after(task[t], new)
                     /\ UNCHANGED <<response_times, history>>
    /\ UNCHANGED <<walker, calls>>

\* asyncio.sleep of call t ends
fetch_wake(t) ==
    /\ task[t].phase = "sleep"
    /\ LET new == next_attempt(task[t])
       IN  /\ task' = [task EXCEPT ![t] = new]
           /\ failed_urls' = failed_after(task[t], new)
    /\ UNCHANGED <<walker, calls, response_times, history, faults_left>>

(***************************************************************************)
(* crawl_complete_chapter_async                                            *)
(***************************************************************************)
\* lines 534-536: the adaptive delay, slept before the chapter is returned
rate_sleep_unscaled ==
    /\ delays' = delays + 1
    /\ IF response_times = <<>>
       THEN /\ wait' = base_delay
            /\ UNCHANGED server_load_factor
       ELSE /\ server_load_factor' = load_factor_of(response_times)
            /\ \E rf \in RandomFactors : wait' = (base_delay * rf) \div 10
rate_sleep ==
    /\ delays' = delays + 1
    /\ IF response_times = <<>>
       THEN /\ wait' = base_delay * 2
            /\ UNCHANGED server_load_factor
       ELSE /\ server_load_factor' = load_factor_of(response_times)
            /\ \E rf \in RandomFactors :
                 wait' = (base_delay * load_factor_of(response_times) * rf) \div 100

\* lines 515-516: the pause after a sub-page that is not the last one
page_gap_sleep_rated == rate_sleep
page_gap_sleep ==
    /\ wait' = PageGap
    /\ UNCHANGED <<server_load_factor, delays>>

\* asyncio.gather of the main page and the pagination links has both results
gather_done ==
    /\ pc = "gather"
    /\ task["main"].phase = "done" /\ task["pag"].phase = "done"
    /\ LET main == IF task["main"].result = "content"
                   THEN extract_content(Page(task["main"].url))
                   ELSE no_html(task["main"].url)
           links == IF task["pag"].result = "content"
                    THEN pagination_links_of(Page(task["pag"].url), task["pag"].url)
                    ELSE <<>>
           ch == [main |-> main, links |-> links, i |-> 0,
                  page_contents |-> <<>>, all_content |-> main.content]
       IN  /\ chapter' = ch
           /\ IF links # <<>>
              THEN /\ task' = [task EXCEPT !["sub"] = begin_fetch(links[1])]
                   /\ pc' = "pages"
                   /\ UNCHANGED <<wait, server_load_factor, delays>>
              ELSE /\ rate_sleep
                   /\ pc' = "rate_sleep"
                   /\ UNCHANGED task
    /\ UNCHANGED <<site, interrupted, page_links, collected, url_with_pages,
                   pagination_urls, returned, current_url,
                   chapter_num, consecutive_failures, next_chapter_url,
                   chapter_count, total_words, file, pending, response_times,
                   history, failed_urls, faults_left, save_failures_left, calls,
                   errors_left>>

\* extract_page_content of sub-page i has returned
page_done ==
    /\ pc = "pages"
    /\ task["sub"].phase = "done"
    /\ LET page_content == IF task["sub"].result = "content"
                           THEN extract_content(Page(task["sub"].url)).content
                           ELSE <<>>
           pcs == IF page_content # <<>>
                  THEN Append(chapter.page_contents, <<chapter.i, page_content>>)
                  ELSE chapter.page_contents
       IN  IF chapter.i < Len(chapter.links) - 1
           THEN /\ chapter' = [chapter EXCEPT !.page_contents = pcs]
                /\ page_gap_sleep
                /\ pc' = "page_gap"
           ELSE /\ chapter' = [chapter EXCEPT !.page_contents = pcs,
                                 !.all_content = merge_pages(chapter.all_content, pcs)]
                /\ rate_sleep
                /\ pc' = "rate_sleep"
    /\ UNCHANGED <<site, interrupted, page_links, collected, url_with_pages,
                   pagination_urls, returned, current_url,
                   chapter_num, consecutive_failures, next_chapter_url,
                   chapter_count, total_words, file, pending, task,
                   response_times, history, failed_urls, faults_left,
                   save_failures_left, calls, errors_left>>

\* the pause between two sub-pages ends: the next sub-page is fetched
page_gap_wake ==
    /\ pc = "page_gap"
    /\ chapter' = [chapter EXCEPT !.i = @ + 1]
    /\ task' = [task EXCEPT !["sub"] = begin_fetch(chapter.links[chapter.i + 2])]
    /\ pc' = "pages"
    /\ UNCHANGED <<site, interrupted, page_links, collected, url_with_pages,
                   pagination_urls, delays, returned,
                   current_url, chapter_num, consecutive_failures,
                   next_chapter_url, chapter_count, total_words, file, pending,
                   response_times, history, failed_urls, server_load_factor,
                   wait, faults_left, save_failures_left, calls, errors_left>>

(***************************************************************************)
(* crawl_novel_from_chapter_async                                          *)
(***************************************************************************)
\* lines 591-626: domain check, header of the output file, counters
start ==
    /\ pc = "start"
    /\ \E outcome \in {"ok", "dns", "open"} :
         IF outcome = "ok"
         THEN /\ file' = <<Block("header", site, 0, <<>>, 0, 0)>>
              /\ current_url' = site
              /\ chapter_num' = 1
              /\ chapter_count' = 0
              /\ total_words' = 0
              /\ consecutive_failures' = 0
              /\ pc' = "loop"
              /\ UNCHANGED returned
         ELSE /\ returned' = FALSE
              /\ pc' = "done"
              /\ UNCHANGED <<file, current_url, chapter_num, chapter_count,
                             total_words, consecutive_failures>>
    /\ UNCHANGED <<site, interrupted, page_links, collected, url_with_pages,
                   pagination_urls, delays, next_chapter_url,
                   chapter, pending, task, response_times, history, failed_urls,
                   server_load_factor, wait, faults_left, save_failures_left,
                   calls, errors_left>>

\* while current_url and consecutive_failures < 5
loop_guard_no_limit == current_url # None
loop_guard == current_url # None /\ consecutive_failures < FailureLimit

\* the loop test; a passed test enters crawl_complete_chapter_async, which starts
\* extract_page_content and get_pagination_links on the same URL
loop_test ==
    /\ pc = "loop"
    /\ IF loop_guard
       THEN /\ task' = [task EXCEPT !["main"] = begin_fetch(current_url),
                                    !["pag"] = begin_fetch(current_url),
                                    !["sub"] = IdleTask]
            /\ chapter' = NoChapter
            /\ delays' = 0
            /\ pc' = "gather"
       ELSE /\ pc' = "summary"
            /\ UNCHANGED <<task, chapter, delays>>
    /\ UNCHANGED <<site, interrupted, page_links, collected, url_with_pages,
                   pagination_urls, returned, current_url,
                   chapter_num, consecutive_failures, next_chapter_url,
                   chapter_count, total_words, file, pending, response_times,
                   history, failed_urls, server_load_factor, wait, faults_left,
                   save_failures_left, calls, errors_left>>

\* line 646
reset_failures_keep == consecutive_failures
reset_failures == 0 * consecutive_failures

\* line 637
count_failure_twice == consecutive_failures + 2
count_failure == consecutive_failures + 1

\* the adaptive delay ends and the chapter is returned to the loop (lines 631-649)
chapter_return ==
    /\ pc = "rate_sleep"
    /\ next_chapter_url' = chapter.main.next
    /\ IF chapter.all_content = <<>>
       THEN /\ consecutive_failures' = count_failure
            /\ current_url' = chapter.main.next
            /\ chapter_num' = chapter_num + 1
            /\ IF count_failure > SlowdownAfter
               THEN pc' = "slow_sleep" /\ wait' = SlowdownWait
               ELSE pc' = "loop" /\ wait' = 0
            /\ UNCHANGED pending
       ELSE /\ consecutive_failures' = reset_failures
            /\ pending' = format_chapter_content(chapter.main.title,
                                                 chapter.all_content, chapter_num)
            /\ pc' = "saving"
            /\ wait' = 0
            /\ UNCHANGED <<current_url, chapter_num>>
    /\ UNCHANGED <<site, interrupted, page_links, collected, url_with_pages,
                   pagination_urls, delays, returned,
                   chapter_count, total_words, file, chapter, task,
                   response_times, history, failed_urls, server_load_factor,
                   faults_left, save_failures_left, calls, errors_left>>

\* the sleep after more than two consecutive failures ends (line 643)
slow_wake ==
    /\ pc = "slow_sleep"
    /\ pc' = "loop"
    /\ wait' = 0
    /\ UNCHANGED <<site, interrupted, page_links, collected, url_with_pages,
                   pagination_urls, delays, returned,
                   current_url, chapter_num, consecutive_failures,
                   next_chapter_url, chapter_count, total_words, file, chapter,
                   pending, task, response_times, history, failed_urls,
                   server_load_factor, faults_left, save_failures_left, calls,
                   errors_left>>

\* lines 651-654: the chapter is counted if the write returned True
count_chapter_always(ok) ==
    /\ chapter_count' = chapter_count + 1
    /\ total_words' = total_words + words_of(chapter.all_content)
count_chapter(ok) ==
    IF ok
    THEN /\ chapter_count' = chapter_count + 1
         /\ total_words' = total_words + words_of(chapter.all_content)
    ELSE UNCHANGED <<chapter_count, total_words>>

\* save_chapter_to_file_async has returned (lines 651-671)
save_done ==
    /\ pc = "saving"
    /\ \E ok \in BOOLEAN :
         /\ ~ok => save_failures_left > 0
         /\ IF ok
            THEN /\ file' = Append(file, pending)
                 /\ UNCHANGED save_failures_left
            ELSE /\ save_failures_left' = save_failures_left - 1
                 /\ UNCHANGED file
         /\ count_chapter(ok)
    /\ pending' = NoBlock
    /\ current_url' = next_chapter_url
    /\ chapter_num' = chapter_num + 1
    /\ pc' = IF next_chapter_url = None THEN "summary" ELSE "loop"
    /\ UNCHANGED <<site, interrupted, page_links, collected, url_with_pages,
                   pagination_urls, delays, returned,
                   consecutive_failures, next_chapter_url, chapter, task,
                   response_times, history, failed_urls, server_load_factor,
                   wait, faults_left, calls, errors_left>>

\* lines 686-709: the statistics block, then return True
summary ==
    /\ pc = "summary"
    /\ \E ok \in BOOLEAN :
         /\ ~ok => save_failures_left > 0
         /\ IF ok
            THEN /\ file' = Append(file, Block("summary", None, chapter_count, <<>>,
                                               total_words, Cardinality(failed_urls)))
                 /\ UNCHANGED save_failures_left
            ELSE /\ save_failures_left' = save_failures_left - 1
                 /\ UNCHANGED file
    /\ returned' = TRUE
    /\ pc' = "done"
    /\ UNCHANGED <<site, interrupted, page_links, collected, url_with_pages,
                   pagination_urls, delays, current_url,
                   chapter_num, consecutive_failures, next_chapter_url,
                   chapter_count, total_words, chapter, pending, task,
                   response_times, history, failed_urls, server_load_factor,
                   wait, faults_left, calls, errors_left>>

\* lines 676-684, the handler of an exception raised in the loop body: it reads
\* next_chapter_url, which line 631 assigns only when the chapter call returns;
\* an unbound name raises again, out of the function
handle_error(failures) ==
    IF next_chapter_url = "unbound"
    THEN /\ pc' = "crashed"
         /\ returned' = "raised"
         /\ UNCHANGED <<consecutive_failures, current_url, chapter_num, wait>>
    ELSE /\ consecutive_failures' = failures + 1
         /\ current_url' = next_chapter_url
         /\ chapter_num' = chapter_num + 1
         /\ wait' = ErrorWait * (failures + 1)
         /\ pc' = "error_sleep"
         /\ UNCHANGED returned

\* a statement of crawl_complete_chapter_async outside the fetches raises (the
\* progress prints of lines 469, 497, 527-532): on entry, after the gather, or
\* after the last sub-page
chapter_raises ==
    /\ errors_left > 0
    /\ \/ pc = "loop" /\ loop_guard
       \/ pc = "gather" /\ task["main"].phase = "done" /\ task["pag"].phase = "done"
       \/ /\ pc = "pages" /\ task["sub"].phase = "done"
          /\ chapter.i = Len(chapter.links) - 1
    /\ errors_left' = errors_left - 1
    /\ handle_error(consecutive_failures)
    /\ UNCHANGED <<site, interrupted, page_links, collected, url_with_pages,
                   pagination_urls, delays, next_chapter_url,
                   chapter_count, total_words, file, chapter, pending, task,
                   response_times, history, failed_urls, server_load_factor,
                   faults_left, save_failures_left, calls>>

\* the chapter was written and counted, and a progress print of lines 659-664
\* raises
report_raises ==
    /\ pc = "saving"
    /\ errors_left > 0
    /\ errors_left' = errors_left - 1
    /\ file' = Append(file, pending)
    /\ chapter_count' = chapter_count + 1
    /\ total_words' = total_words + words_of(chapter.all_content)
    /\ pending' = NoBlock
    /\ handle_error(consecutive_failures)
    /\ UNCHANGED <<site, interrupted, page_links, collected, url_with_pages,
                   pagination_urls, delays, next_chapter_url,
                   chapter, task, response_times, history, failed_urls,
                   server_load_factor, faults_left, save_failures_left, calls>>

\* the sleep of the exception handler ends (line 683)
error_wake ==
    /\ pc = "error_sleep"
    /\ pc' = "loop"
    /\ wait' = 0
    /\ UNCHANGED <<site, interrupted, page_links, collected, url_with_pages,
                   pagination_urls, delays, returned,
                   current_url, chapter_num, consecutive_failures,
                   next_chapter_url, chapter_count, total_words, file, chapter,
                   pending, task, response_times, history, failed_urls,
                   server_load_factor, faults_left, save_failures_left,
                   errors_left, calls>>

\* where the while loop of lines 628-684 can stand
Running == {"loop", "gather", "pages", "page_gap", "rate_sleep", "saving",
            "slow_sleep", "error_sleep"}

\* the fetch calls of a coroutine that is left by an exception are abandoned
\* with it, and the event loop cancels the gathered ones when it shuts down
abandon_calls_none == task
abandon_calls == [t \in Tasks |-> IdleTask]

\* line 580: the write runs in an executor thread, which an interrupt does not
\* stop: a chapter handed to it may or may not reach the file
written_on_interrupt ==
    IF pc = "saving" THEN {file, Append(file, pending)} ELSE {file}

\* Ctrl-C while the loop runs. A KeyboardInterrupt raised in a statement of the
\* walker's own coroutine is caught at line 673 and breaks the loop (not while
\* the coroutine waits for the two gathered calls). One raised inside the event
\* loop, or delivered by asyncio.run as a cancellation of the main task, passes
\* `except KeyboardInterrupt` and `except Exception` and leaves the function.
interrupt ==
    /\ pc \in Running
    /\ interrupted' = TRUE
    /\ task' = abandon_calls
    /\ file' \in written_on_interrupt
    /\ \E caught \in BOOLEAN :
         /\ caught => ~(/\ pc = "gather"
                        /\ \E t \in {"main", "pag"} : task[t].phase # "done")
         /\ IF caught
            THEN pc' = "summary" /\ UNCHANGED returned
            ELSE pc' = "interrupted" /\ returned' = "raised"
    /\ UNCHANGED <<site, page_links, collected, url_with_pages, pagination_urls,
                   delays,
                   current_url, chapter_num, consecutive_failures,
                   next_chapter_url, chapter_count, total_words, chapter, pending,
                   response_times, history, failed_urls, server_load_factor,
                   wait, faults_left, save_failures_left, calls, errors_left>>

(***************************************************************************)
(* A caller that only makes fetch_with_retry calls, two at a time at most  *)
(***************************************************************************)
harness_call(t) ==
    /\ pc = "harness"
    /\ task[t].phase \in {"idle", "done"}
    /\ calls < MaxCalls
    /\ \E u \in HarnessUrls : task' = [task EXCEPT ![t] = begin_fetch(u)]
    /\ calls' = calls + 1
    /\ UNCHANGED <<walker, response_times, history, failed_urls, faults_left>>

\* lines 471-478 alone: the two calls that asyncio.gather runs side by side,
\* both on the chapter URL
harness_gather ==
    /\ pc = "harness"
    /\ \A t \in {"main", "pag"} : task[t].phase \in {"idle", "done"}
    /\ calls + 2 <= MaxCalls
    /\ \E u \in HarnessUrls :
         task' = [task EXCEPT !["main"] = begin_fetch(u), !["pag"] = begin_fetch(u)]
    /\ calls' = calls + 2
    /\ UNCHANGED <<walker, response_times, history, failed_urls, faults_left>>

(***************************************************************************)
(* Callers of _calculate_adaptive_delay and of the link resolution alone   *)
(***************************************************************************)
\* one call of _calculate_adaptive_delay on the window as it stands
rate_call ==
    /\ pc = "rate"
    /\ rate_sleep
    /\ pc' = "rated"
    /\ UNCHANGED <<site, returned, current_url, chapter_num, consecutive_failures,
                   next_chapter_url, chapter_count, total_words, file, chapter,
                   pending, task, response_times, history, failed_urls,
                   interrupted, page_links, url_with_pages,
                   collected, pagination_urls, faults_left, save_failures_left,
                   errors_left, calls>>

\* lines 436-442 applied to the collected hrefs
resolve ==
    /\ pc = "links"
    /\ pagination_urls' = dedup_and_sort(collected)
    /\ pc' = "resolved"
    /\ UNCHANGED <<site, returned, current_url, chapter_num, consecutive_failures,
                   next_chapter_url, chapter_count, total_words, file, chapter,
                   pending, task, response_times, history, failed_urls,
                   server_load_factor, delays, wait, collected, faults_left,
                   save_failures_left, errors_left, calls, interrupted,
                   page_links, url_with_pages>>

\* get_pagination_links(session, site) from the matched anchors on
get_links ==
    /\ pc = "anchors"
    /\ pagination_urls' = pagination_links_of([links |-> page_links], site)
    /\ pc' = "got_links"
    /\ UNCHANGED <<site, returned, current_url, chapter_num, consecutive_failures,
                   next_chapter_url, chapter_count, total_words, file, chapter,
                   pending, task, response_times, history, failed_urls,
                   server_load_factor, delays, wait, collected, faults_left,
                   save_failures_left, errors_left, calls, interrupted,
                   page_links, url_with_pages>>

\* lines 365-368 of _sort_pagination_urls: a page number for each URL
number_urls ==
    /\ pc = "urls"
    /\ url_with_pages' = [j \in 1..Len(collected) |->
                             <<extract_page_number(rule_matches(collected[j])),
                               collected[j]>>]
    /\ pc' = "numbered"
    /\ UNCHANGED <<site, returned, current_url, chapter_num, consecutive_failures,
                   next_chapter_url, chapter_count, total_words, file, chapter,
                   pending, task, response_times, history, failed_urls,
                   server_load_factor, delays, wait, collected, faults_left,
                   save_failures_left, errors_left, calls, interrupted,
                   page_links, pagination_urls>>

\* the same lines applied to the list they returned
resolve_again ==
    /\ pc = "resolved"
    /\ pagination_urls' = dedup_and_sort(pagination_urls)
    /\ pc' = "resolved_twice"
    /\ UNCHANGED <<site, returned, current_url, chapter_num, consecutive_failures,
                   next_chapter_url, chapter_count, total_words, file, chapter,
                   pending, task, response_times, history, failed_urls,
                   server_load_factor, delays, wait, collected, faults_left,
                   save_failures_left, errors_left, calls, interrupted,
                   page_links, url_with_pages>>

(***************************************************************************)
(* WebCrawler (src/tsxk.py): the synchronous crawler                       *)
(***************************************************************************)
\* get_html_content up to its session.get: a URL that _validate_url rejects gives
\* None without a request
get_html_request(u) ==
    IF validate_url(u) THEN begin_fetch(u)
    ELSE [IdleTask EXCEPT !.phase = "done", !.url = u, !.result = "None"]

\* get_html_content from the answer on: raise_for_status and the except clauses
\* turn everything but a 200 into None
get_html_content_retries(tk, o) == on_outcome(tk, o)
get_html_content(tk, o) ==
    IF o = "200" THEN [tk EXCEPT !.phase = "done", !.result = "content", !.last = o]
    ELSE [give_up(tk) EXCEPT !.last = o]

\* extract_article_content, from the result of get_html_content on
extract_article_content(tk) ==
    LET body == Page(tk.url)
        NonEmpty(p) == p.n > 0
    IN  IF tk.result # "content" THEN Result(<<>>, None, None)
        ELSE IF ~body.container \/ body.paras = <<>> THEN Result(<<>>, None, None)
        ELSE Result(SelectSeq(body.paras, NonEmpty), body.next, None)

\* get_pagination_links, from the result of get_html_content on
get_pagination_links(tk) ==
    IF tk.result # "content" THEN <<>>
    ELSE LET body == Page(tk.url)
             Valid(l) == validate_url(l.href)
             kept == SelectSeq(body.links, Valid)
         IN  [j \in 1..Len(kept) |-> kept[j].href]

\* `if content: self.save_content_to_file(content, output_file, is_main_page)`
save_content_to_file(content_list, kind) ==
    IF content_list = <<>> THEN UNCHANGED <<file, save_failures_left>>
    ELSE \E ok \in BOOLEAN :
            /\ ~ok => save_failures_left > 0
            /\ IF ok
               THEN /\ file' = Append(file,
                            Block(kind, None, 0,
                                  [j \in 1..Len(content_list) |-> content_list[j].text],
                                  0, 0))
                    /\ UNCHANGED save_failures_left
               ELSE /\ save_failures_left' = save_failures_left - 1
                    /\ UNCHANGED file

\* what crawl_all_pages and the methods it calls never touch
async_state ==
    <<chapter_num, consecutive_failures, chapter_count, total_words, pending,
      response_times, failed_urls, server_load_factor, history, delays,
      page_links, collected, url_with_pages, pagination_urls, wait, errors_left,
      calls, interrupted>>

\* session.get of the running get_html_content call is answered or raises
sync_response ==
    /\ pc \in {"sync_main", "sync_links", "sync_page"}
    /\ task["main"].phase = "inflight"
    /\ \E o \in Answers(task["main"].url) :
         /\ o # "200" => faults_left # 0
         /\ faults_left' = IF o = "200" THEN faults_left ELSE faults_left - 1
         /\ task' = [task EXCEPT !["main"] = get_html_content(task["main"], o)]
    /\ UNCHANGED <<site, pc, returned, current_url, next_chapter_url, file, chapter,
                   save_failures_left, async_state>>

\* crawl_all_pages up to the first extract_article_content (lines 345-362)
crawl_all_pages ==
    /\ pc = "sync_start"
    /\ \E opened \in BOOLEAN :
         IF ~opened
         THEN /\ returned' = FALSE
              /\ pc' = "done"
              /\ UNCHANGED <<file, current_url, task>>
         ELSE /\ file' = <<Block("header", None, 0, <<>>, 0, 0)>>
              /\ IF site = None
                 THEN /\ returned' = FALSE
                      /\ pc' = "done"
                      /\ UNCHANGED <<current_url, task>>
                 ELSE /\ current_url' = site
                      /\ task' = [task EXCEPT !["main"] = get_html_request(site)]
                      /\ pc' = "sync_main"
                      /\ UNCHANGED returned
    /\ UNCHANGED <<site, next_chapter_url, chapter, faults_left, save_failures_left,
                   async_state>>

\* extract_article_content(url) has returned: the main page is saved and
\* get_pagination_links requests the same URL again (lines 362-368)
main_extracted ==
    /\ pc = "sync_main"
    /\ task["main"].phase = "done"
    /\ LET res == extract_article_content(task["main"])
       IN  /\ next_chapter_url' = res.next
           /\ chapter' = [NoChapter EXCEPT !.main = res]
           /\ save_content_to_file(res.content, "main")
    /\ task' = [task EXCEPT !["main"] = get_html_request(current_url)]
    /\ pc' = "sync_links"
    /\ UNCHANGED <<site, returned, current_url, faults_left, async_state>>

\* get_pagination_links(url) has returned: the first linked page is requested
links_got ==
    /\ pc = "sync_links"
    /\ task["main"].phase = "done"
    /\ LET links == get_pagination_links(task["main"])
       IN  /\ chapter' = [chapter EXCEPT !.links = links]
           /\ IF links # <<>>
              THEN /\ task' = [task EXCEPT !["main"] = get_html_request(links[1])]
                   /\ pc' = "sync_page"
              ELSE /\ pc' = "sync_next"
                   /\ UNCHANGED task
    /\ UNCHANGED <<site, returned, current_url, next_chapter_url, file,
                   faults_left, save_failures_left, async_state>>

\* extract_article_content(page_url) has returned: the page is saved and the next
\* linked page is requested (lines 369-375)
page_extracted ==
    /\ pc = "sync_page"
    /\ task["main"].phase = "done"
    /\ save_content_to_file(extract_article_content(task["main"]).content, "page")
    /\ IF chapter.i < Len(chapter.links) - 1
       THEN /\ chapter' = [chapter EXCEPT !.i = @ + 1]
            /\ task' = [task EXCEPT
                          !["main"] = get_html_request(chapter.links[chapter.i + 2])]
            /\ pc' = "sync_page"
       ELSE /\ pc' = "sync_next"
            /\ UNCHANGED <<chapter, task>>
    /\ UNCHANGED <<site, returned, current_url, next_chapter_url, faults_left,
                   async_state>>

\* `if nexturl: url = nexturl, else: break`, then return True (lines 378-385)
next_document ==
    /\ pc = "sync_next"
    /\ IF next_chapter_url # None
       THEN /\ current_url' = next_chapter_url
            /\ task' = [task EXCEPT !["main"] = get_html_request(next_chapter_url)]
            /\ pc' = "sync_main"
            /\ UNCHANGED returned
       ELSE /\ returned' = TRUE
            /\ pc' = "done"
            /\ UNCHANGED <<current_url, task>>
    /\ UNCHANGED <<site, next_chapter_url, file, chapter, faults_left,
                   save_failures_left, async_state>>

(***************************************************************************)
(* Specifications                                                          *)
(***************************************************************************)
InitCommon ==
    /\ returned = None
    /\ current_url = None
    /\ chapter_num = 0
    /\ consecutive_failures = 0
    /\ next_chapter_url = "unbound"
    /\ chapter_count = 0
    /\ total_words = 0
    /\ file = <<>>
    /\ chapter = NoChapter
    /\ pending = NoBlock
    /\ task = [t \in Tasks |-> IdleTask]
    /\ failed_urls = {}
    /\ delays = 0
    /\ server_load_factor = InitialLoadFactor
    /\ wait = 0
    /\ save_failures_left = MaxSaveFailures
    /\ errors_left = MaxErrors
    /\ calls = 0
    /\ interrupted = FALSE

\* no fetch has succeeded yet; no page is being resolved
NoSamples == response_times = <<>> /\ history = <<>>
NoLinks ==
    /\ page_links = <<>> /\ collected = <<>>
    /\ url_with_pages = <<>> /\ pagination_urls = <<>>

\* a traversal from one of the start URLs
Init ==
    /\ InitCommon
    /\ site \in StartUrls
    /\ pc = "start"
    /\ faults_left = MaxFaults
    /\ NoSamples
    /\ NoLinks

Next ==
    \/ start
    \/ loop_test
    \/ gather_done
    \/ page_done
    \/ page_gap_wake
    \/ chapter_return
    \/ slow_wake
    \/ save_done
    \/ summary
    \/ chapter_raises
    \/ report_raises
    \/ error_wake
    \/ \E t \in Tasks : fetch_response(t)
    \/ \E t \in Tasks : fetch_wake(t)

Spec == Init /\ [][Next]_vars

\* a traversal the user may interrupt
NextInterrupt == Next \/ interrupt

SpecInterrupt == Init /\ [][NextInterrupt]_vars

\* the two results the walker awaits are there
gather_ready ==
    pc = "gather" /\ task["main"].phase = "done" /\ task["pag"].phase = "done"
page_ready == pc = "pages" /\ task["sub"].phase = "done"

\* every request gets an outcome, every sleep ends, and the event loop resumes
\* a coroutine whose awaited result is there (for gather_done and page_done the
\* condition is written on their guards: each is enabled exactly when its
\* guard holds); the user need not interrupt, and nothing need fail
FairWalk ==
    /\ SpecInterrupt
    /\ WF_vars(start) /\ WF_vars(loop_test) /\ WF_vars(page_gap_wake)
    /\ WF_vars(chapter_return) /\ WF_vars(slow_wake) /\ WF_vars(save_done)
    /\ WF_vars(summary) /\ WF_vars(error_wake)
    /\ \A t \in Tasks : WF_vars(fetch_response(t)) /\ WF_vars(fetch_wake(t))
    /\ []<>~gather_ready
    /\ []<>~page_ready

\* fetch_with_retry alone, against servers that may answer anything
InitFetch ==
    /\ InitCommon
    /\ site = None
    /\ pc = "harness"
    /\ faults_left = Unlimited
    /\ NoSamples
    /\ NoLinks

NextFetch ==
    \/ \E t \in {"main", "pag"} : harness_call(t)
    \/ \E t \in {"main", "pag"} : fetch_response(t)
    \/ \E t \in {"main", "pag"} : fetch_wake(t)

SpecFetch == InitFetch /\ [][NextFetch]_vars

\* the same calls in a session whose earlier fetches have filled the window: n
\* samples, all different
Filled(n) == [k \in 1..n |-> 100 * k]

InitWindow ==
    /\ InitCommon
    /\ site = None
    /\ pc = "harness"
    /\ faults_left = Unlimited
    /\ \E n \in {WindowCap - 1, WindowCap} :
         response_times = Filled(n) /\ history = Filled(n)
    /\ NoLinks

SpecWindow == InitWindow /\ [][NextFetch]_vars

\* the two gathered calls of one chapter step, against any server
NextGather ==
    \/ harness_gather
    \/ \E t \in {"main", "pag"} : fetch_response(t)
    \/ \E t \in {"main", "pag"} : fetch_wake(t)

SpecGather == InitFetch /\ [][NextGather]_vars

\* _calculate_adaptive_delay alone, on the empty window, on every window of up
\* to MaxSamples samples, and on windows longer than the 10 samples it reads
Samples == {1000, 1500, 2000, 3000, 4000, 5000, 6000}
OlderSamples == {100, 9000}
Windows ==
    {<<>>}
      \cup UNION {[1..n -> Samples] : n \in 1..MaxSamples}
      \cup {older \o [j \in 1..RecentCount |-> v] :
                older \in UNION {[1..k -> OlderSamples] : k \in 1..2}, v \in Samples}

InitRate ==
    /\ InitCommon
    /\ site = None
    /\ pc = "rate"
    /\ faults_left = Unlimited
    /\ response_times \in Windows
    /\ history = response_times
    /\ NoLinks

NextRate == rate_call

SpecRate == InitRate /\ [][NextRate]_vars

\* the deduplication and the sort alone, on every list of up to MaxUrls hrefs; the
\* page numbers of LinkUrls are 1, 2, 2, 3, 0 and 0
LinkUrls == {"B1", "B2", "M1a", "M1c", "A", "D1"}
Hrefs == UNION {[1..n -> LinkUrls] : n \in 0..MaxUrls}

InitLinks ==
    /\ InitCommon
    /\ site = None
    /\ pc = "links"
    /\ faults_left = Unlimited
    /\ NoSamples
    /\ page_links = <<>>
    /\ url_with_pages = <<>>
    /\ collected \in Hrefs
    /\ pagination_urls = <<>>

NextLinks == resolve \/ resolve_again

SpecLinks == InitLinks /\ [][NextLinks]_vars

\* get_pagination_links on a parsed document: the link texts an anchor can have
\* ("shangyi", "xiayi", "shouye", "moye" stand for the Chinese previous, next,
\* first page, last page) and the anchors the selectors can match in the
\* document "A"
LinkLabels == {"2", "prev", "next", "first", "last",
               "shangyi", "xiayi", "shouye", "moye"}
Anchors == {Link(h, l) : h \in {"A", "B1", "B2", "javascript:"}, l \in LinkLabels}

InitResolver ==
    /\ InitCommon
    /\ site = "A"
    /\ pc = "anchors"
    /\ faults_left = Unlimited
    /\ NoSamples
    /\ page_links \in UNION {[1..n -> Anchors] : n \in 0..MaxLinks}
    /\ collected = <<>>
    /\ url_with_pages = <<>>
    /\ pagination_urls = <<>>

NextResolver == get_links

SpecResolver == InitResolver /\ [][NextResolver]_vars

\* _extract_page_number on the URLs whose path, query and fragment each hold
\* one of the texts the rules look for, or none; the number in the path is 1,
\* in the query 2, in the fragment 3
PathPieces == {NoPiece, Piece("/page/N/", 1), Piece("/N.html", 1), Piece("/pN.html", 1)}
QueryPieces == {NoPiece, Piece("page=N", 2), Piece("p=N", 2), Piece("paged=N", 2)}
FragmentPieces == {NoPiece, Piece("N", 3), Piece("page=N", 3), Piece("/page/N/", 3)}
CandidateUrls ==
    {Url(p, q, f) : p \in PathPieces, q \in QueryPieces, f \in FragmentPieces}

InitNumber ==
    /\ InitCommon
    /\ site = None
    /\ pc = "urls"
    /\ faults_left = Unlimited
    /\ NoSamples
    /\ page_links = <<>>
    /\ collected \in {<<u>> : u \in CandidateUrls}
    /\ url_with_pages = <<>>
    /\ pagination_urls = <<>>

NextNumber == number_urls

SpecNumber == InitNumber /\ [][NextNumber]_vars

\* a run of WebCrawler.crawl_all_pages(output_file, url)
InitSync ==
    /\ InitCommon
    /\ site \in SyncUrls
    /\ pc = "sync_start"
    /\ faults_left = MaxFaults
    /\ NoSamples
    /\ NoLinks

NextSync ==
    \/ crawl_all_pages
    \/ sync_response
    \/ main_extracted
    \/ links_got
    \/ page_extracted
    \/ next_document

SpecSync == InitSync /\ [][NextSync]_vars


\* every request gets an outcome and every sleep ends
FairFetch ==
    SpecFetch /\ \A t \in {"main", "pag"} :
                    WF_vars(fetch_response(t)) /\ WF_vars(fetch_wake(t))

(***************************************************************************)
(* Properties of fetch_with_retry (checked under SpecFetch / FairFetch)    *)
(***************************************************************************)
Callers == {"main", "pag"}
Retryable == {"403", "other", "conn", "ssl", "timeout", "unknown"}

\* call t has just received the answer o to its current request
Answered(t, o) ==
    /\ task[t].phase = "inflight"
    /\ task'[t] # task[t]
    /\ task'[t].last = o
    /\ task'[t].url = task[t].url
    /\ task'[t].nreq \in {task[t].nreq, task[t].nreq + 1}
    /\ ~(task'[t].phase = "inflight" /\ task'[t].nreq = task[t].nreq)

\* C7: a 404 answer ends the call at once as a failure: the call whose latest
\* answer is 404 is finished, has returned None, and has issued no request after
\* the one that was answered 404 (exactly one request when the 404 came first).
C7_NotFoundNoRetry ==
    \A t \in Callers :
        task[t].last = "404" =>
            /\ task[t].phase = "done"
            /\ task[t].result = "None"
            /\ task[t].nreq = task[t].attempt + 1
            /\ (task[t].attempt = 0 => task[t].nreq = 1)

C7_Witness ==
    \E t \in Callers :
        task[t].last = "404" /\ task[t].attempt = 0 /\ task[t].nreq = 1
        /\ task[t].phase = "done"

\* C8: every 403 answer, whatever the attempt, puts the call to sleep for 5 s
\* without issuing a request, the sleep is followed by the next attempt while
\* attempts remain, and a call to a server that always answers 403 ends with
\* exactly 5 requests and the result None.
C8_ForbiddenCooldown ==
    /\ [][\A t \in Callers :
            /\ Answered(t, "403") =>
                 /\ task'[t].phase = "sleep"
                 /\ task'[t].wait = ForbiddenWait
                 /\ task'[t].nreq = task[t].nreq
            /\ (task[t].phase = "sleep" /\ task[t].last = "403" /\ task'[t] # task[t]) =>
                 IF task[t].nreq < retry_count
                 THEN task'[t].phase = "inflight" /\ task'[t].nreq = task[t].nreq + 1
                 ELSE task'[t].phase = "done" /\ task'[t].result = "None"]_vars
    /\ [](\A t \in Callers :
            (task[t].url = "H403" /\ task[t].phase = "done") =>
                task[t].nreq = retry_count /\ task[t].result = "None")

C8_Witness ==
    \E t \in Callers :
        /\ task[t].url = "H403" /\ task[t].phase = "done"
        /\ task[t].nreq = 5 /\ task[t].result = "None"

\* C9: whatever the servers answer, a call issues at most 5 requests, a finished
\* call has returned content or None, and every call in progress finishes.
C9_FetchBounded ==
    /\ [](\A t \in Callers :
            /\ task[t].nreq <= retry_count
            /\ task[t].phase \in {"idle", "inflight", "sleep", "done"}
            /\ task[t].phase = "done" <=> task[t].result \in {"content", "None"})
    /\ \A t \in Callers :
         (task[t].phase \in {"inflight", "sleep"}) ~> (task[t].phase = "done")

C9_Witness ==
    \E t \in Callers :
        /\ task[t].phase = "done" /\ task[t].nreq = 5
        /\ task[t].last = "unknown" /\ task[t].result = "None"

\* C10: a call that ends after 5 requests that all got a retryable answer has
\* returned None with its URL in failed_urls, and the step in which a call
\* returns content leaves failed_urls as it was.
C10_FailedUrlRecorded ==
    /\ [](\A t \in Callers :
            (task[t].phase = "done" /\ task[t].nreq = retry_count
             /\ task[t].last \in Retryable) =>
                task[t].result = "None" /\ task[t].url \in failed_urls)
    /\ [][\A t \in Callers :
            (task[t].phase # "done" /\ task'[t].phase = "done"
             /\ task'[t].result = "content") => failed_urls' = failed_urls]_vars

C10_Witness ==
    \E t, r \in Callers :
        /\ task[t].phase = "done" /\ task[t].nreq = 5 /\ task[t].last \in Retryable
        /\ task[t].url \in failed_urls
        /\ task[r].phase = "done" /\ task[r].result = "content"
        /\ task[r].url \notin failed_urls

(***************************************************************************)
(* Properties of the traversal (checked under Spec)                        *)
(***************************************************************************)
\* the segments of the chapter blocks of the output file, in file order
Chapters == SelectSeq(file, LAMBDA b : b.kind = "chapter")
ChapterSegs == [k \in 1..Len(Chapters) |-> Chapters[k].segs]
Texts(content) == [k \in 1..Len(content) |-> content[k].text]

\* no server answered anything but 200, no file write failed, nothing raised
NoFailures ==
    /\ faults_left = MaxFaults
    /\ save_failures_left = MaxSaveFailures
    /\ errors_left = MaxErrors
    /\ ~interrupted

IsPrefix(a, b) == Len(a) <= Len(b) /\ a = SubSeq(b, 1, Len(a))

\* C1: the merged segment list of a document is the main page's segments followed
\* by the segments of the sub-pages whose fetch gave segments, by ascending index
\* in the resolved link list; while sub-pages are still being fetched nothing is
\* merged, and the collected results carry strictly ascending indices.
C1_MergedByIndex ==
    LET pcs == chapter.page_contents
        got == {pcs[k][1] : k \in 1..Len(pcs)}
        SubSegs(j) == IF (j - 1) \in got
                      THEN SelectSeq(Page(chapter.links[j]).paras, LAMBDA p : p.n > MinLen)
                      ELSE <<>>
        merged == chapter.main.content
                    \o Flatten([j \in 1..Len(chapter.links) |-> SubSegs(j)])
    IN  /\ \A k \in 1..Len(pcs) : \A m \in 1..Len(pcs) : k < m => pcs[k][1] < pcs[m][1]
        /\ pc \in {"pages", "page_gap"} => chapter.all_content = chapter.main.content
        /\ pc \in {"rate_sleep", "saving"} => chapter.all_content = merged
        /\ pc = "saving" => pending.segs = Texts(merged)

\* two of three sub-pages gave segments, the middle one did not
C1_Witness ==
    /\ pc = "saving"
    /\ Len(chapter.links) = 3
    /\ Len(chapter.page_contents) = 2
    /\ chapter.page_contents[2][1] = 2
    /\ pending.segs = <<"m1", "ma", "mb">>

\* the segments each document of a chain yields, for the chains whose documents
\* all have segments
ExpectedRecords(s) ==
    CASE s = "A"  -> << <<"T1", "P1">>, <<"P2", "P2b", "P3">> >>
      [] s = "D1" -> << <<"d1">>, <<"d2", "d2a", "d2b">>, <<"d3">> >>

\* C2: in a traversal without failures of a chain whose documents all have
\* segments, the chapter blocks of the file are at every moment a prefix of the
\* documents' segment lists in chain order, and all N of them at the end.
C2_RecordsInChainOrder ==
    (site \in {"A", "D1"} /\ NoFailures) =>
        /\ IsPrefix(ChapterSegs, ExpectedRecords(site))
        /\ pc = "done" /\ returned = TRUE => ChapterSegs = ExpectedRecords(site)
        /\ pc = "done" /\ returned = TRUE => chapter_count = Len(ExpectedRecords(site))

C2_Witness ==
    /\ site = "D1" /\ NoFailures /\ pc = "done"
    /\ Len(Chapters) = 3
    /\ Chapters[2].segs = <<"d2", "d2a", "d2b">>

\* C3: for the chain A -> B, where B's sub-pages are discovered as B2 then B1,
\* the sub-pages are fetched and merged by page number (B1, then B2), and a
\* traversal without failures writes exactly [T1,P1] and [P2,P2b,P3].
C3_MergedByPageNumber ==
    (site = "A" /\ NoFailures) =>
        /\ (current_url = "B" /\ pc \in {"pages", "page_gap", "rate_sleep"}) =>
                chapter.links = <<"B1", "B2">>
        /\ pc = "done" /\ returned = TRUE =>
                /\ Len(Chapters) = 2
                /\ Chapters[1].segs = <<"T1", "P1">>
                /\ Chapters[2].segs = <<"P2", "P2b", "P3">>

C3_Witness ==
    /\ site = "A" /\ NoFailures /\ pc = "done"
    /\ Len(file) = 4
    /\ file[3].segs = <<"P2", "P2b", "P3">>

\* C4: once consecutive_failures is 5 the traversal is on its way out of the
\* loop, and no step starts a fetch or issues a request any more.
C4_AbortAfterFive ==
    /\ [](consecutive_failures = FailureLimit =>
            /\ pc \in {"slow_sleep", "error_sleep", "loop", "summary", "done"}
            /\ \A t \in Tasks : task[t].phase \in {"idle", "done"})
    /\ [][consecutive_failures = FailureLimit =>
            /\ task' = task
            /\ consecutive_failures' = FailureLimit
            /\ pc = "loop" => pc' = "summary"]_vars

\* the fifth failure in a row left a next URL that is never fetched
C4_Witness ==
    /\ consecutive_failures = 5 /\ pc = "done"
    /\ current_url = "X9" /\ task["main"].url = "E8"

C6_EmptyDocument ==
    [][/\ (pc = "rate_sleep" /\ chapter.all_content = <<>>) =>
            /\ file' = file
            /\ chapter_count' = chapter_count /\ total_words' = total_words
            /\ consecutive_failures' = consecutive_failures + 1
            /\ current_url' = chapter.main.next
            /\ pc' \in {"loop", "slow_sleep"}
       /\ pc = "slow_sleep" => pc' = "loop" /\ current_url' = current_url
       /\ (pc = "loop" /\ current_url = None) => pc' = "summary" /\ task' = task
       /\ (pc = "loop" /\ current_url # None /\ consecutive_failures < FailureLimit) =>
            \/ pc' = "gather" /\ task'["main"] = begin_fetch(current_url)
            \/ pc' \in {"error_sleep", "crashed"} /\ task' = task]_vars

\* two documents without segments were skipped and the third is being fetched
C6_Witness ==
    /\ site = "E1" /\ pc = "gather" /\ current_url = "G3"
    /\ consecutive_failures = 2 /\ Len(file) = 1 /\ chapter_count = 0

(***************************************************************************)
(* Failed URLs and URL validation (checked under SpecFetch)                *)
(***************************************************************************)
\* C11: the step in which a 404 answer ends a call records nothing: it leaves
\* failed_urls as it was.
C11_NotFoundNotRecorded ==
    [][\A t \in Callers : Answered(t, "404") => failed_urls' = failed_urls]_vars

\* C12: a call on a URL that _validate_url rejects never waits and never goes
\* past its first attempt: it makes no retry and no backoff wait.
C12_InvalidUrlImmediate ==
    \A t \in Callers :
        ~validate_url(task[t].url) =>
            /\ task[t].phase # "sleep"
            /\ task[t].attempt = 0

(***************************************************************************)
(* The requests of one chapter step (checked under Spec)                   *)
(***************************************************************************)
\* the session.get calls issued so far for the document URL by the two calls
\* that the gather of lines 471-478 runs
DocumentRequests ==
    LET Of(t) == IF task[t].url = current_url THEN task[t].nreq ELSE 0
    IN  Of("main") + Of("pag")

\* C13: while a chapter step whose requests all succeed is under way, exactly
\* one request has been issued for the document URL.
C13_DocumentFetchedOnce ==
    (NoFailures /\ pc \in {"gather", "pages", "page_gap", "rate_sleep"}) =>
        DocumentRequests = 1

(***************************************************************************)
(* The latency window (checked under SpecWindow)                           *)
(***************************************************************************)
\* C14: response_times never holds more than 50 samples, it is at every moment
\* the last 50 (or all, if fewer) of the elapsed times of the successful
\* round-trips in completion order, and an attempt that does not end with a 200
\* answer leaves it as it was.
C14_WindowIsRecentLatencies ==
    /\ [](Len(response_times) <= WindowCap)
    /\ [](response_times = LastN(history, WindowCap))
    /\ [][\A t \in Callers : \A o \in Outcomes \ {"200"} :
            Answered(t, o) => response_times' = response_times]_vars

\* 52 round-trips succeeded, one of them after a failed attempt: the two oldest
\* samples are gone, the newest is last
C14_Witness ==
    /\ Len(history) = WindowCap + 2
    /\ Len(response_times) = WindowCap
    /\ response_times[1] = history[3]
    /\ response_times[WindowCap] = 4000
    /\ response_times[WindowCap - 1] = 1000
    /\ \E t \in Callers : task[t].phase = "done" /\ task[t].attempt > 0

(***************************************************************************)
(* Two calls side by side (checked under SpecGather)                       *)
(***************************************************************************)
Succeeded(t) == task[t].phase = "done" /\ task[t].result = "content"
Failed(t) == task[t].phase = "done" /\ task[t].result = "None"

\* C15: for the two gathered calls, however their steps interleave: a call that
\* has returned None has its URL in failed_urls, a call that has returned content
\* has its sample in the window, the window holds one sample per call of the
\* first pair that has succeeded, and no step removes a failed URL or a sample (the window being
\* below its capacity).
C15_NoLostUpdate ==
    /\ [](\A t \in Callers : Failed(t) => task[t].url \in failed_urls)
    /\ [](\A t \in Callers :
            Succeeded(t) =>
                \E k \in 1..Len(response_times) :
                    response_times[k] = task[t].response_time)
    /\ [](calls <= 2 =>
            Len(response_times) = Cardinality({t \in Callers : Succeeded(t)}))
    /\ [][/\ failed_urls \subseteq failed_urls'
          /\ IsPrefix(response_times, response_times')]_vars

\* one call gave up after its 5 requests while the other, gathered with it, got
\* the document at its third request
C15_Witness ==
    /\ Failed("main") /\ task["main"].nreq = retry_count
    /\ task["main"].last \in Retryable
    /\ Succeeded("pag") /\ task["pag"].nreq = 3
    /\ failed_urls = {"H1"}
    /\ response_times = <<4000>>

(***************************************************************************)
(* The adaptive delay (C16, C18 under SpecRate; C17, C19 under Spec)       *)
(***************************************************************************)
\* C16: after a call of _calculate_adaptive_delay on a non-empty window, with S
\* the sum of the last n = min(10, window size) samples, server_load_factor is
\* 3.0 if S/n > 5.0, else 2.5 if S/n > 3.0, else 2.0 if S/n > 1.5, else 1.5; a
\* mean of 4.0 gives 2.5 and the means 5.0, 3.0 and 1.5 give 2.5, 2.0 and 1.5.
C16_LoadFactorBands ==
    (pc = "rated" /\ response_times # <<>>) =>
        LET len == Len(response_times)
            n == IF len < 10 THEN len ELSE 10
            S == SumSeq(SubSeq(response_times, len - n + 1, len))
        IN  /\ server_load_factor =
                 IF S > 5000 * n THEN 30
                 ELSE IF S > 3000 * n THEN 25
                 ELSE IF S > 1500 * n THEN 20
                 ELSE 15
            /\ S = 4000 * n => server_load_factor = 25
            /\ S = 5000 * n => server_load_factor = 25
            /\ S = 3000 * n => server_load_factor = 20
            /\ S = 1500 * n => server_load_factor = 15

\* twelve samples, the two oldest of 9 s, the last ten of exactly 5 s each
C16_Witness ==
    /\ pc = "rated"
    /\ Len(response_times) = 12
    /\ response_times[1] = 9000 /\ response_times[2] = 9000
    /\ response_times[3] = 5000
    /\ server_load_factor = 25

\* the statement of C17 as claimed: the load factor is at least 1.5 in every
\* state of a session
C17_LoadFactorFloor == server_load_factor >= 15

\* C17: the load factor is 1.0 from construction on; the first call of
\* _calculate_adaptive_delay on a non-empty window sets it to one of 1.5, 2.0,
\* 2.5, 3.0, every later call does so again, a call on the empty window leaves
\* it alone, and from the first setting on it is never below 1.5.
C17_FloorOnceComputed ==
    /\ [](server_load_factor \in {InitialLoadFactor, 15, 20, 25, 30})
    /\ [][/\ (delays' = delays + 1 /\ response_times # <<>>) =>
                server_load_factor' \in {15, 20, 25, 30}
          /\ (delays' = delays + 1 /\ response_times = <<>>) =>
                server_load_factor' = server_load_factor
          /\ delays' # delays + 1 => server_load_factor' = server_load_factor
          /\ server_load_factor >= 15 => server_load_factor' >= 15]_vars

\* the delay of the second document of A -> B: it was 1.5 after A, and B's own
\* two answers took 6 s each
C17_Witness ==
    /\ site = "A" /\ pc = "rate_sleep" /\ current_url = "B" /\ NoFailures
    /\ response_times = <<1200, 1200, 6000, 6000, 1200, 1200>>
    /\ server_load_factor = 20

\* C18: a call of _calculate_adaptive_delay on the empty window returns exactly
\* 2 x base_delay; on a non-empty window it returns d with base_delay x f <= d <=
\* 2 x base_delay x f for the load factor f it has just set; every returned delay
\* is at least 1.5 x base_delay.
C18_DelayBounds ==
    pc = "rated" =>
        /\ response_times = <<>> => wait = 2 * base_delay
        /\ response_times # <<>> =>
             /\ base_delay * server_load_factor <= 10 * wait
             /\ 10 * wait <= 2 * base_delay * server_load_factor
        /\ 10 * wait >= 15 * base_delay

\* a fast server and the smallest random factor: the delay is 1.5 x base_delay
C18_Witness ==
    /\ pc = "rated"
    /\ response_times = <<1000, 1500, 2000>>
    /\ server_load_factor = 15
    /\ 10 * wait = 15 * base_delay

PageNumber(u) == extract_page_number(UrlParts(u))
Elements(s) == {s[k] : k \in 1..Len(s)}

\* C20: the list that deduplication and sort return has no URL twice, holds
\* exactly the URLs of the collected list, and is ascending by page number; and
\* applying deduplication and sort to it returns it unchanged.
C20_DedupSortIdempotent ==
    /\ [](pc \in {"resolved", "resolved_twice"} =>
            /\ \A j, k \in 1..Len(pagination_urls) :
                    j # k => pagination_urls[j] # pagination_urls[k]
            /\ Elements(pagination_urls) = Elements(collected)
            /\ \A j, k \in 1..Len(pagination_urls) :
                    j < k => PageNumber(pagination_urls[j]) <= PageNumber(pagination_urls[k]))
    /\ [][pc = "resolved" => pagination_urls' = pagination_urls]_vars

\* duplicates, descending page numbers and two URLs of page 2
C20_Witness ==
    /\ pc = "resolved_twice"
    /\ collected = <<"M1c", "B2", "M1a", "B2">>
    /\ pagination_urls = <<"B2", "M1a", "M1c">>

\* the position at which u was first collected
FirstSeen(u) ==
    CHOOSE k \in 1..Len(collected) :
        collected[k] = u /\ \A j \in 1..(k - 1) : collected[j] # u

\* C21: a URL in which no rule finds a page number has page number 0 and stands,
\* in the sorted list, before every URL whose page number is positive; two URLs
\* with the same page number stand in the order in which they were first
\* collected.
C21_DefaultZeroStableTies ==
    /\ \A u \in LinkUrls : UrlParts(u) = NoParts => PageNumber(u) = 0
    /\ pc = "resolved" =>
         \A j, k \in 1..Len(pagination_urls) :
            LET a == pagination_urls[j]
                b == pagination_urls[k]
            IN  /\ (UrlParts(a) = NoParts /\ PageNumber(b) > 0) => j < k
                /\ (j < k /\ PageNumber(a) = PageNumber(b)) =>
                        FirstSeen(a) < FirstSeen(b)

\* two URLs without page number and two URLs of page 2, each pair collected
\* in the order opposite to the alphabetical one
C21_Witness ==
    /\ pc = "resolved"
    /\ collected = <<"M1a", "D1", "B2", "A">>
    /\ pagination_urls = <<"D1", "A", "M1a", "B2">>

\* the navigational terms of the spec: prev, next, first, last in English and
\* in Chinese
NavigationalTerms == {"prev", "next", "first", "last",
                      "shangyi", "xiayi", "shouye", "moye"}

\* C22: the list the resolver returns does not contain the URL of the document
\* itself, and every URL in it is the target of an anchor whose label is not a
\* navigational term (prev, next, first, last, English or Chinese).
C22_NoSelfNoNavigation ==
    pc = "got_links" =>
        /\ \A j \in 1..Len(pagination_urls) : pagination_urls[j] # site
        /\ \A j \in 1..Len(pagination_urls) :
              \E k \in 1..Len(page_links) :
                  /\ page_links[k].href = pagination_urls[j]
                  /\ page_links[k].label \notin NavigationalTerms

(***************************************************************************)
(* The traversal's results (C23, C24 under Spec)                           *)
(***************************************************************************)
\* the document the main call of the current chapter has fetched
MainDocument == Page(task["main"].url)

\* C23: when the fetched document has no content container, the extractor
\* returns no segments together with the document's title and its next link,
\* and a traversal without failures does not end at a document that has a next
\* link.
C23_NavigationOnlyDocumentAdvances ==
    /\ (/\ pc = "rate_sleep"
        /\ Succeeded("main")
        /\ ~MainDocument.container) =>
            /\ chapter.main.content = <<>>
            /\ chapter.main.title = MainDocument.title
            /\ chapter.main.next = MainDocument.next
    /\ (/\ pc = "summary"
        /\ NoFailures
        /\ consecutive_failures < FailureLimit) => MainDocument.next = None

\* C24: the traversal returns True if and only if the chain was walked to its
\* end: it returns False when it stops on the 5th consecutive failure with
\* documents left, and when the host did not resolve or the output file could
\* not be created.
C24_SuccessIffTerminated ==
    pc = "done" =>
        /\ returned = TRUE =>
              file # <<>> /\ (consecutive_failures < FailureLimit \/ current_url = None)
        /\ (/\ file # <<>>
            /\ consecutive_failures < FailureLimit
            /\ current_url = None) => returned = TRUE

(***************************************************************************)
(* failed_urls (C28 under SpecFetch)                                       *)
(***************************************************************************)
\* C28: no step removes a URL from failed_urls; in particular the step in which
\* a call gets its document leaves a URL that is in failed_urls there.
C28_FailedUrlsAppendOnly ==
    /\ [][failed_urls \subseteq failed_urls']_vars
    /\ [][\A t \in Callers :
            (task[t].url \in failed_urls /\ task'[t].phase = "done") =>
                task[t].url \in failed_urls']_vars

\* a URL given up before has been fetched again, this time with success, and is
\* still recorded
C28_Witness ==
    \E t, o \in Callers :
        /\ t # o
        /\ Failed(o) /\ task[o].nreq = retry_count
        /\ Succeeded(t) /\ task[t].url = task[o].url
        /\ task[t].url \in failed_urls
        /\ calls = 2

(***************************************************************************)
(* The end of a traversal (C25, C26, C29 under SpecInterrupt)              *)
(***************************************************************************)
\* crawl_novel_from_chapter_async has returned or has been left by an exception
Ended == pc \in {"done", "crashed", "interrupted"}

Summaries == SelectSeq(file, LAMBDA b : b.kind = "summary")

\* C25: a traversal that has written the header of the file and has ended, be
\* it at the end of the chain, on the 5th consecutive failure or by an
\* interrupt, has written one summary block, the last block of the file, whose
\* chapter count is the number of chapter records in the file and whose
\* failed-URL count is the size of failed_urls (no file write having failed and
\* no statement of the loop body having raised).
C25_SummaryAlwaysWritten ==
    (/\ Ended
     /\ file # <<>>
     /\ save_failures_left = MaxSaveFailures
     /\ errors_left = MaxErrors) =>
        /\ Len(Summaries) = 1
        /\ file[Len(file)].kind = "summary"
        /\ file[Len(file)].num = Len(Chapters)
        /\ file[Len(file)].failed = Cardinality(failed_urls)

\* positions of the loop at which a document is being fetched or assembled
InFlight == {"gather", "pages", "page_gap", "rate_sleep"}

\* C26: an interrupt that arrives while a document is being fetched or assembled
\* leaves the file and the counters as they are; after the interrupt no fetch
\* call is in progress, no request is made, and no chapter record is added or
\* changed (the segments fetched so far stay in the locals of the chapter call
\* and reach no record).
C26_InterruptDiscardsDocument ==
    /\ [][(pc \in InFlight /\ ~interrupted /\ interrupted') =>
            /\ file' = file
            /\ chapter_count' = chapter_count
            /\ total_words' = total_words]_vars
    /\ [](interrupted => \A t \in Tasks : task[t].phase = "idle")
    /\ [][interrupted => (task' = task /\ Chapters' = Chapters)]_vars

\* the traversal from D1 was interrupted in the pause after the first sub-page of
\* D2 and has ended: the main page and one sub-page of D2 were fetched, the file
\* holds the record of D1 and the summary
C26_Witness ==
    /\ interrupted
    /\ pc = "done"
    /\ current_url = "D2"
    /\ chapter.main.content # <<>>
    /\ Len(chapter.page_contents) = 1
    /\ ChapterSegs = << <<"d1">> >>
    /\ Len(file) = 3

(***************************************************************************)
(* Termination (C27 under FairWalk)                                        *)
(***************************************************************************)
\* C27: on the finite chains without cycle of the model, every request getting
\* an outcome, the traversal eventually ends, and a traversal that has written
\* its header ends only with no next URL left, with 5 consecutive failures, or
\* interrupted by the user.
C27_StopsOnlyByExhaustionBudgetInterrupt ==
    /\ <>Ended
    /\ [](Ended /\ file # <<>> =>
            \/ current_url = None
            \/ consecutive_failures = FailureLimit
            \/ interrupted)

\* the documents and sub-pages of the four chains, their segments, and the
\* length of a segment found in a record
SiteUrls == {"A", "B", "B1", "B2",
             "E1", "E2", "G3", "E4", "E5", "E6", "E7", "E8", "X9",
             "M1", "M1a", "M1b", "M1c", "M2", "M3",
             "D1", "D2", "D2a", "D2b", "D3"}
Segments == {p \in UNION {Elements(Page(u).paras) : u \in SiteUrls} : p.n > MinLen}
SegmentLength(t) == (CHOOSE p \in Segments : p.text = t).n
RecordWords(b) == SumSeq([j \in 1..Len(b.segs) |-> SegmentLength(b.segs[j])])
WordsWritten == SumSeq([k \in 1..Len(Chapters) |-> RecordWords(Chapters[k])])

Raises == errors_left' < errors_left

\* C30: a step in which the processing of a document raises adds 1 to
\* consecutive_failures, writes nothing, starts a wait of 5 s times the new
\* consecutive_failures, and makes the next link of that document the current
\* URL; the function is never left by an exception of the handler itself.
C30_ErrorStepIsEmptyResult ==
    /\ [](pc # "crashed")
    /\ [][Raises =>
            /\ consecutive_failures' = consecutive_failures + 1
            /\ file' = file
            /\ wait' = ErrorWait * consecutive_failures'
            /\ current_url' = extract_content(Page(current_url)).next]_vars

(***************************************************************************)
(* The page number of a URL (C31 under SpecNumber)                         *)
(***************************************************************************)
\* the number each part of a URL carries for the spec: a numeric path segment,
\* a numeric query parameter page, p or paged, a number in the fragment
PathNumber(u) ==
    IF u.path.kind \in {"/page/N/", "/N.html", "/pN.html"} THEN u.path.n ELSE NoNum
QueryNumber(u) ==
    IF u.query.kind \in {"page=N", "p=N", "paged=N"} THEN u.query.n ELSE NoNum
FragmentNumber(u) == u.fragment.n

\* C31: the page number of a URL is the number of its path if the path carries
\* one, else the number of its query parameter page, p or paged if there is
\* one, else the number in its fragment: a part of lower priority does not
\* decide when a part of higher priority carries a number.
C31_HigherPriorityPartDecides ==
    pc = "numbered" =>
        \A j \in 1..Len(url_with_pages) :
            LET n == url_with_pages[j][1]
                u == url_with_pages[j][2]
            IN  /\ PathNumber(u) # NoNum => n = PathNumber(u)
                /\ (PathNumber(u) = NoNum /\ QueryNumber(u) # NoNum) =>
                        n = QueryNumber(u)
                /\ (/\ PathNumber(u) = NoNum
                    /\ QueryNumber(u) = NoNum
                    /\ FragmentNumber(u) # NoNum) => n = FragmentNumber(u)

(***************************************************************************)
(* The wait after another status (C32 under SpecFetch)                     *)
(***************************************************************************)
\* C32: a response with a status other than 200, 403 and 404 to the k-th request
\* of a call (k < 5) puts the call to sleep for k seconds, and a call issues a
\* further request only at the end of a sleep.
C32_LinearBackoffOnOtherStatus ==
    /\ [][\A t \in Callers :
            (Answered(t, "other") /\ task[t].attempt + 1 < retry_count) =>
                /\ task'[t].phase = "sleep"
                /\ task'[t].wait = 1000 * (task[t].attempt + 1)]_vars
    /\ [][\A t \in Callers :
            (/\ task[t].phase \in {"inflight", "sleep"}
             /\ task'[t].url = task[t].url
             /\ task'[t].nreq = task[t].nreq + 1) => task[t].phase = "sleep"]_vars

(***************************************************************************)
(* Documents with failed sub-pages (C33 under Spec)                        *)
(***************************************************************************)
\* the segments a sub-page contributes: its paragraphs longer than MinLen when the
\* fetch gave a body with the content container, nothing otherwise
SubPageSegments(tk) ==
    IF tk.result = "content" /\ Page(tk.url).container
    THEN SelectSeq(Page(tk.url).paras, LAMBDA p : p.n > MinLen)
    ELSE <<>>
\* the segments collected from the sub-pages, in the order of the collection
Collected(pcs) == Flatten([k \in 1..Len(pcs) |-> pcs[k][2]])

\* C33: a sub-page whose fetch failed or gave no segments is left out and the
\* sub-pages collected before it are kept; the document is then written as a
\* chapter record holding the main page's segments followed by the segments of
\* the sub-pages that gave some, by ascending index, and consecutive_failures is 0
\* when the record is written.
C33_PartialDocumentPersisted ==
    /\ [][(pc = "pages" /\ pc' \in {"page_gap", "rate_sleep"}) =>
            LET segs == SubPageSegments(task["sub"])
            IN  chapter'.page_contents =
                    IF segs = <<>> THEN chapter.page_contents
                    ELSE Append(chapter.page_contents, <<chapter.i, segs>>)]_vars
    /\ [](pc \in {"rate_sleep", "saving"} =>
            LET pcs == chapter.page_contents
            IN  /\ \A k \in 1..Len(pcs) : \A m \in 1..Len(pcs) :
                        k < m => pcs[k][1] < pcs[m][1]
                /\ chapter.all_content = chapter.main.content \o Collected(pcs))
    /\ [][(pc = "rate_sleep" /\ pc' # pc /\ chapter.all_content # <<>>) =>
            /\ pc' = "saving"
            /\ consecutive_failures' = 0
            /\ pending'.kind = "chapter"
            /\ pending'.segs = Texts(chapter.all_content)]_vars
    /\ [][(pc = "saving" /\ file' # file) =>
            /\ file' = Append(file, pending)
            /\ consecutive_failures = 0]_vars

\* the second document of the chain D1, D2, D3 lost its first sub-page to a 404
\* and was written with the main page's and the second sub-page's segments
C33_Witness ==
    /\ failed_urls = {"D2a"}
    /\ Len(chapter.links) = 2
    /\ Len(chapter.page_contents) = 1
    /\ chapter.page_contents[1][1] = 1
    /\ Len(Chapters) = 2
    /\ Chapters[2].segs = <<"d2", "d2b">>
    /\ consecutive_failures = 0
    /\ chapter_count = 2

(***************************************************************************)
(* A failed fetch of the main page (C34 under Spec)                        *)
(***************************************************************************)
\* fetch_with_retry of the document's own page has returned None
MainFailed == task["main"].phase = "done" /\ task["main"].result = "None"
\* the chapter call has gathered the results of the main page and of the links
Gathered == pc \in {"pages", "page_gap", "rate_sleep", "saving"}

WriteFails == pc = "saving" /\ save_failures_left' = save_failures_left - 1

\* C35: a chapter is written only with segments; when its write fails,
\* chapter_count and total_words stay as they are, consecutive_failures is 0
\* before and after, the current URL becomes the document's next URL and
\* chapter_num grows by 1; the walker then fetches that URL, or ends if the
\* document had none.
C35_FailedWriteStillAdvances ==
    /\ [](pc = "saving" => chapter.all_content # <<>> /\ consecutive_failures = 0)
    /\ [][WriteFails =>
            /\ chapter_count' = chapter_count /\ total_words' = total_words
            /\ consecutive_failures' = 0
            /\ current_url' = chapter.main.next
            /\ chapter_num' = chapter_num + 1
            /\ pc' = IF chapter.main.next = None THEN "summary" ELSE "loop"]_vars

\* the write of the first chapter failed: nothing is counted, nothing is in the
\* file but the header, and the second document is being fetched as chapter 2
C35_Witness ==
    /\ site = "A" /\ pc = "gather"
    /\ save_failures_left = MaxSaveFailures - 1
    /\ Len(file) = 1
    /\ chapter_count = 0 /\ total_words = 0
    /\ consecutive_failures = 0
    /\ current_url = "B" /\ task["main"].url = "B"
    /\ chapter_num = 2

(***************************************************************************)
(* The synchronous crawler (C36 under SpecSync)                            *)
(***************************************************************************)
\* the next link of the page at u as served: the href of a[rel=next] when the
\* content container and a paragraph are there
NextLink(u) ==
    IF Page(u).container /\ Page(u).paras # <<>> THEN Page(u).next ELSE None

\* C36: the next link of a document is None when its one request failed, when
\* the content container or its paragraphs are missing and when there is no
\* rel=next link, and the page's link otherwise; the linked pages do not change
\* it; after the linked pages the loop goes on with the next link whenever there
\* is one, whatever was extracted or saved, and otherwise ends with True; once
\* the loop is entered the call returns nothing but True; every call of
\* get_html_content ends with the answer to its first request.
C36_StopsAtFirstMissingNextLink ==
    /\ [][(pc = "sync_main" /\ pc' = "sync_links") =>
            next_chapter_url' = IF task["main"].result = "content"
                                THEN NextLink(current_url) ELSE None]_vars
    /\ [][(pc \in {"sync_links", "sync_page"}) =>
            /\ next_chapter_url' = next_chapter_url
            /\ current_url' = current_url]_vars
    /\ [][(pc = "sync_next") =>
            IF next_chapter_url = None
            THEN pc' = "done" /\ returned' = TRUE /\ task' = task
            ELSE /\ pc' = "sync_main"
                 /\ current_url' = next_chapter_url
                 /\ task'["main"].url = next_chapter_url]_vars
    /\ [](pc = "done" /\ current_url # None => returned = TRUE)
    /\ [](pc # "done" => returned = None)
    /\ [](\A t \in Tasks : task[t].phase # "sleep" /\ task[t].nreq <= 1)
    /\ [][(task["main"].phase = "inflight" /\ task'["main"] # task["main"]) =>
            task'["main"].phase = "done"]_vars

\* six documents in a row gave nothing to save and the loop went on; the request
\* of the seventh failed, and the call returned True with only the header written
C36_Witness ==
    /\ site = "Z1" /\ pc = "done" /\ returned = TRUE
    /\ current_url = "Z7"
    /\ next_chapter_url = None
    /\ Len(file) = 1
    /\ save_failures_left = MaxSaveFailures
    /\ faults_left = MaxFaults - 1

=============================================================================
